---- MODULE Spec2Model ----
(***************************************************************************)
(* Model of src/server/app.py: the in-memory registry download_status,     *)
(* the artifact store DOWNLOAD_FOLDER, one worker thread per submitted     *)
(* job (download_video), the janitor thread (cleanup_old_files), the       *)
(* request handlers (start_download, check_status, get_file) and the       *)
(* delayed_delete threads spawned by get_file.                             *)
(*                                                                         *)
(* Threads interleave at the granularity of their accesses to the shared   *)
(* dictionary and to the file system.  yt_dlp is an external collaborator  *)
(* (the Fetcher): while a worker is inside extract_info the Fetcher may    *)
(* put files named after the job id into the store, remove its temporary   *)
(* files, call the progress hook, and finally return or raise.             *)
(***************************************************************************)
EXTENDS Integers, Sequences, FiniteSets, TLC

\* ------------------------------------------------------------------ bounds
NumIds == 2          \* number of uuid4 values the model can issue
MaxTime == 2405      \* last clock value (seconds) the model explores
MaxPending == 2      \* delayed_delete threads alive at once per job

\* ------------------------------------------------------- program constants
RETENTION == 1800    \* app.py:35
SWEEP_INTERVAL == 300 \* app.py:40
GRACE_DELAY == 5     \* app.py:185
SIZE_LIMIT_MB == 1000 \* app.py:147

Ids == 1..NumIds
NoId == 0

\* Extensions of the files the Fetcher puts into the store: the merged output,
\* an intermediate stream and a temporary file (suffixes other than .mp4).
Exts == {"mp4", "m4a", "part"}

\* output_template = DOWNLOAD_FOLDER / f'{download_id}.%(ext)s'
FileName(x, e) == <<x, e>>
AllFiles == {FileName(x, e) : x \in Ids, e \in Exts}

\* request.json['url'] as a sequence of pieces; " " is whitespace.
Urls == { <<" ">>,
          <<"not-a-youtube-link">>,
          <<" ", "https://", "youtu.be", "/abc123">> }

\* Size estimates (MB) the probe may report; 0 = no size known.
ProbeSizes == {0, 900, 1500}
ProbeResults == ProbeSizes \cup {-1}    \* -1: extract_info(download=False) raised

\* d['_percent_str'] values handed to the progress hook.
PercentStrs == {" 50.0%", "  0.0%", "N/A"}
HookStatuses == {"downloading", "finished"}

VARIABLES
    clock,            \* time.time()
    download_status,  \* the registry: a dict id -> entry
    files,            \* the artifact store: file name -> st_mtime
    wpc,              \* per id: position of its worker thread
    wFile,            \* per id, worker local: the .mp4 file its glob found
    jpc,              \* position of the janitor thread
    current_time,     \* janitor local: time sampled at the start of a sweep (0 between sweeps)
    jTodo,            \* janitor local: files of the glob not yet visited
    jFile,            \* janitor local: file_path of the current iteration
    jMtime,           \* janitor local: st_mtime read for jFile
    jSleep,           \* janitor: seconds left of its time.sleep
    dd,               \* delayed_delete threads: set of [id, n, file, left, pc],
                      \* left = seconds left of the thread's time.sleep
    retrieved,        \* per id: get_file has returned a stream for it
    pool,             \* the ids of this run: those uuid4 draws and requests name
    horizon,          \* the last instant of this run
    outputs,          \* the extensions of the files the Fetcher produces in this run
    hist,             \* history: what the run has done so far (see NoHist)
    resp              \* last HTTP response produced

vars == <<clock, download_status, files, wpc, wFile, jpc, current_time, jTodo,
          jFile, jMtime, jSleep, dd, retrieved, pool, horizon, outputs, hist, resp>>

workerVars == <<wpc, wFile, pool, horizon, outputs>>
janitorVars == <<jpc, current_time, jTodo, jFile, jMtime, jSleep>>

NoFile == <<NoId, "none">>
\* History recorded for the properties; no action reads it.
\*   artMtime[x]  : st_mtime of the file named in x's 'complete' record when
\*                  the worker's glob found it (-1: none found)
\*   ddRan[x]     : a delayed_delete thread of x has run to its end
\*   overSweeps[f]: sweeps that began while f, in the store ever since, was
\*                  over the retention age
NoHist == [artMtime |-> [x \in Ids |-> -1],
           ddRan |-> [x \in Ids |-> FALSE],
           overSweeps |-> [f \in AllFiles |-> 0]]

NoResp == [op |-> "none", id |-> NoId, code |-> 0, body |-> "none"]

\* ----------------------------------------------------------- pure helpers

\* url.strip(): drop leading and trailing whitespace pieces
RECURSIVE LStrip(_)
LStrip(u) == IF u # <<>> /\ Head(u) = " " THEN LStrip(Tail(u)) ELSE u

RECURSIVE RStrip(_)
RStrip(u) == IF u # <<>> /\ u[Len(u)] = " "
             THEN RStrip(SubSeq(u, 1, Len(u) - 1)) ELSE u

Strip(u) == RStrip(LStrip(u))

\* 'piece' in url
Contains(u, piece) == \E i \in 1..Len(u) : u[i] = piece

\* float(d.get('_percent_str').strip().replace('%','')); -1 = ValueError
ParsePercent(s) ==
    CASE s = " 50.0%" -> 50
      [] s = "  0.0%" -> 0
      [] OTHER -> -1

\* Variants of the age test: the comparison taken as >=, and the sweep
\* interval used in place of the retention window.
IsOverAge_Geq(now, mtime) == now - mtime >= RETENTION
IsOverAge_Interval(now, mtime) == now - mtime > SWEEP_INTERVAL

\* current_time - file_path.stat().st_mtime > 1800
IsOverAge(now, mtime) == now - mtime > RETENTION

\* download_status.get(download_id, {'status': 'not_found'})
StatusOf(reg, x) ==
    IF x \in DOMAIN reg THEN reg[x].status ELSE "not_found"

\* dict assignment  download_status[x] = e
Put(reg, x, e) ==
    [k \in (DOMAIN reg) \cup {x} |-> IF k = x THEN e ELSE reg[k]]

\* del download_status[x]
Del(reg, x) == [k \in (DOMAIN reg) \ {x} |-> reg[k]]

\* file_path.unlink() / a file reaching the store
RemoveFile(fs, f) == [k \in (DOMAIN fs) \ {f} |-> fs[k]]
AddFile(fs, f, t) == [k \in (DOMAIN fs) \cup {f} |-> IF k = f THEN t ELSE fs[k]]

DownloadingEntry == [status |-> "downloading", progress |-> 0]
CompleteEntry(f) == [status |-> "complete", filename |-> f,
                     title |-> "My Video", size_mb |-> 0]
\* Variant of the error record: the text stored under another key.
ErrorEntry_OtherKey(m) == [status |-> "error", error |-> m]

ErrorEntry(m) == [status |-> "error", message |-> m]

Terminal == {"complete", "error"}

\* ------------------------------------------------------------------- Init
InitState ==
    /\ clock = 0
    /\ download_status = << >>
    /\ files = << >>
    /\ wpc = [x \in Ids |-> "unissued"]
    /\ wFile = [x \in Ids |-> NoFile]
    /\ jpc = "sleep"
    /\ current_time = 0
    /\ jTodo = {}
    /\ jFile = NoFile
    /\ jMtime = 0
    /\ jSleep = 0
    /\ dd = {}
    /\ retrieved = [x \in Ids |-> FALSE]
    /\ hist = NoHist
    /\ resp = NoResp

\* One job, followed over the whole time line.
Init ==
    /\ InitState
    /\ pool = {1}
    /\ horizon = MaxTime
    /\ outputs = Exts

\* --------------------------------------------------------------- the clock
\* Time passes while every thread is between two steps.  The model observes
\* the system at these instants: the start, the moment a file written at
\* the start reaches the retention age, and two later instants one sweep
\* interval apart, each more than a grace delay after the one before.
TimePoints == {0, RETENTION,
               RETENTION + GRACE_DELAY + SWEEP_INTERVAL,
               RETENTION + GRACE_DELAY + 2 * SWEEP_INTERVAL}

\* What is left of a sleep of s seconds after d seconds
Remaining(s, d) == IF s > d THEN s - d ELSE 0

Tick ==
    /\ \E t \in TimePoints :
          /\ t > clock
          /\ t <= horizon
          /\ clock' = t
          /\ jSleep' = Remaining(jSleep, t - clock)
          /\ dd' = {[u EXCEPT !.left = Remaining(u.left, t - clock)] : u \in dd}
    /\ UNCHANGED <<hist, download_status, files, workerVars, jpc, current_time,
                   jTodo, jFile, jMtime, retrieved, resp>>

\* ------------------------------------------------- POST /download  (127-160)
\* Variant of the host test: any url that is not blank passes.
HasAcceptedHost_Loose(u) == \E i \in 1..Len(u) : u[i] # " "

\* 'youtube.com' in url or 'youtu.be' in url
HasAcceptedHost(u) == Contains(u, "youtube.com") \/ Contains(u, "youtu.be")

\* str(uuid.uuid4()): an id never issued before.  Ids are interchangeable, so
\* the model hands them out in order; NoId once the model's ids are used up.
NextId(w) ==
    IF \E x \in pool : w[x] = "unissued"
    THEN CHOOSE x \in pool : w[x] = "unissued" /\ \A y \in pool : y < x => w[y] # "unissued"
    ELSE NoId

\* The handler validates the url, probes the size, and only then draws a
\* uuid4, starts the worker thread and returns the id.  The handler does not
\* write the registry.
StartDownload(url, probe) ==
    /\ IF Strip(url) = <<>>
       THEN /\ resp' = [op |-> "download", id |-> NoId, code |-> 400,
                        body |-> "No URL provided"]
            /\ UNCHANGED wpc
       ELSE IF ~HasAcceptedHost(Strip(url))
       THEN /\ resp' = [op |-> "download", id |-> NoId, code |-> 400,
                        body |-> "Invalid YouTube URL"]
            /\ UNCHANGED wpc
       ELSE IF probe > SIZE_LIMIT_MB
       THEN /\ resp' = [op |-> "download", id |-> NoId, code |-> 400,
                        body |-> "Video is very large"]
            /\ UNCHANGED wpc
       ELSE \E x \in Ids :
               /\ x = NextId(wpc)
               /\ wpc' = [wpc EXCEPT ![x] = "spawned"]
               /\ resp' = [op |-> "download", id |-> x, code |-> 200,
                           body |-> "download_id"]
    /\ UNCHANGED <<hist, clock, download_status, files, janitorVars, dd, retrieved,
                   wFile, pool, horizon, outputs>>

\* --------------------------------------------- download_video  (57-109)
\* Variant of the worker's first step: line 80 left out.
WorkerBegin_NoRecord(x) ==
    /\ wpc[x] = "spawned"
    /\ wpc' = [wpc EXCEPT ![x] = "fetching"]
    /\ UNCHANGED <<clock, download_status, files, janitorVars, dd, retrieved,
                   wFile, pool, horizon, outputs, hist, resp>>

\* Lines 60-81: build the options, record 'downloading', enter extract_info.
WorkerBegin(x) ==
    /\ wpc[x] = "spawned"
    /\ download_status' = Put(download_status, x, DownloadingEntry)
    /\ wpc' = [wpc EXCEPT ![x] = "fetching"]
    /\ UNCHANGED <<hist, clock, files, janitorVars, dd, retrieved, wFile, pool, horizon, outputs, resp>>

\* The Fetcher puts a file '<id>.<ext>' into the store; its last-modified
\* time is the time of the write.
FetcherWrite(x, e) ==
    /\ wpc[x] = "fetching"
    /\ e \in outputs
    /\ FileName(x, e) \notin DOMAIN files
    /\ files' = AddFile(files, FileName(x, e), clock)
    /\ UNCHANGED <<hist, clock, download_status, workerVars, janitorVars, dd,
                   retrieved, resp>>

\* The Fetcher removes one of its own temporary files (rename, merge).
FetcherRemove(x, e) ==
    /\ wpc[x] = "fetching"
    /\ e # "mp4"
    /\ FileName(x, e) \in DOMAIN files
    /\ files' = RemoveFile(files, FileName(x, e))
    /\ hist' = [hist EXCEPT !.overSweeps[FileName(x, e)] = 0]
    /\ UNCHANGED <<clock, download_status, workerVars, janitorVars, dd,
                   retrieved, resp>>

\* update_progress(d, download_id)  (112-119)
UpdateProgress(reg, x, hookStatus, percentStr) ==
    IF /\ hookStatus = "downloading"
       /\ ParsePercent(percentStr) >= 0
       /\ x \in DOMAIN reg
    THEN [reg EXCEPT ![x] =
            [k \in (DOMAIN reg[x]) \cup {"progress"} |->
                IF k = "progress" THEN ParsePercent(percentStr) ELSE reg[x][k]]]
    ELSE reg

\* The Fetcher calls the progress hook from inside extract_info.
FetcherProgress(x, hookStatus, percentStr) ==
    /\ wpc[x] = "fetching"
    /\ download_status' = UpdateProgress(download_status, x, hookStatus, percentStr)
    /\ UNCHANGED <<hist, clock, files, workerVars, janitorVars, dd, retrieved, resp>>

\* extract_info returns normally (line 84).
FetcherReturn(x) ==
    /\ wpc[x] = "fetching"
    /\ wpc' = [wpc EXCEPT ![x] = "fetched"]
    /\ UNCHANGED <<hist, clock, download_status, files, janitorVars, dd, retrieved, wFile,
                   pool, horizon, outputs, resp>>

\* Variant: the exception raised by extract_info ends the worker thread
\* without the record of lines 107-108.
FetcherRaise_Uncaught(x) ==
    /\ wpc[x] = "fetching"
    /\ wpc' = [wpc EXCEPT ![x] = "done"]
    /\ UNCHANGED <<hist, clock, download_status, files, janitorVars, dd, retrieved,
                   wFile, pool, horizon, outputs, resp>>

\* extract_info raises; the handler at 107-109 records the error.
FetcherRaise(x) ==
    /\ wpc[x] = "fetching"
    /\ download_status' = Put(download_status, x, ErrorEntry("fetch failed"))
    /\ wpc' = [wpc EXCEPT ![x] = "done"]
    /\ UNCHANGED <<hist, clock, files, janitorVars, dd, retrieved, wFile, pool, horizon, outputs, resp>>

\* DOWNLOAD_FOLDER.glob(f'{download_id}*') filtered by suffix == '.mp4'
Mp4FilesOf(fs, x) == {f \in DOMAIN fs : f[1] = x /\ f[2] = "mp4"}

\* Lines 86-92: the glob for '<id>*' and the test of the suffix find the
\* job's .mp4 file, if there is one.
WorkerGlob(x) ==
    /\ wpc[x] = "fetched"
    /\ IF Mp4FilesOf(files, x) # {}
       THEN \E f \in Mp4FilesOf(files, x) :
               /\ wFile' = [wFile EXCEPT ![x] = f]
               /\ hist' = [hist EXCEPT !.artMtime[x] = files[f]]
       ELSE /\ wFile' = [wFile EXCEPT ![x] = NoFile]
            /\ UNCHANGED hist
    /\ wpc' = [wpc EXCEPT ![x] = "globbed"]
    /\ UNCHANGED <<clock, download_status, files, janitorVars, dd, retrieved,
                   pool, horizon, outputs, resp>>

\* Lines 93-105: write the terminal record: 'complete' with the name of the
\* file found, or 'error' when no file was found.
WorkerFinish(x) ==
    /\ wpc[x] = "globbed"
    /\ download_status' =
          IF wFile[x] # NoFile
          THEN Put(download_status, x, CompleteEntry(wFile[x]))
          ELSE Put(download_status, x, ErrorEntry("File not found after download"))
    /\ wpc' = [wpc EXCEPT ![x] = "done"]
    /\ wFile' = [wFile EXCEPT ![x] = NoFile]
    /\ UNCHANGED <<hist, clock, files, janitorVars, dd, retrieved, pool, horizon, outputs,
                   resp>>

\* ------------------------------------------- GET /status/<id>  (163-166)
CheckStatus(x) ==
    /\ resp' = [op |-> "status", id |-> x, code |-> 200,
                body |-> StatusOf(download_status, x)]
    /\ UNCHANGED <<hist, clock, download_status, files, workerVars, janitorVars,
                   dd, retrieved>>

\* ------------------------------------------------ GET /get/<id>  (169-203)
\* status and status.get('status') == 'complete'
IsReady(reg, x) == x \in DOMAIN reg /\ reg[x].status = "complete"

\* filepath.exists()
FileExists(fs, f) == f \in DOMAIN fs

\* delayed_delete threads alive for job x, and a free thread slot for it
ThreadsOf(d, x) == {t \in d : t.id = x}
FreeSlot(d, x) ==
    CHOOSE n \in 1..(MaxPending + 1) :
        /\ \A t \in ThreadsOf(d, x) : t.n # n
        /\ \A m \in 1..(n - 1) : \E t \in ThreadsOf(d, x) : t.n = m

\* Variant of the handler: the existence check of lines 179-180 left out.
GetFile_NoExistsCheck(x) ==
    /\ IF ~IsReady(download_status, x)
       THEN /\ resp' = [op |-> "get", id |-> x, code |-> 404,
                        body |-> "File not ready"]
            /\ UNCHANGED <<dd, retrieved>>
       ELSE /\ Cardinality(ThreadsOf(dd, x)) < MaxPending
            /\ resp' = [op |-> "get", id |-> x, code |-> 200, body |-> "stream"]
            /\ retrieved' = [retrieved EXCEPT ![x] = TRUE]
            /\ dd' = dd \cup {[id |-> x, n |-> FreeSlot(dd, x),
                               file |-> download_status[x].filename,
                               left |-> GRACE_DELAY, pc |-> "sleep"]}
    /\ UNCHANGED <<hist, clock, download_status, files, workerVars, janitorVars>>

\* The handler answers 404 unless the job is complete and its file exists;
\* otherwise it streams the file and starts a delayed_delete thread that
\* holds filepath and download_id.
GetFile(x) ==
    /\ IF ~IsReady(download_status, x)
       THEN /\ resp' = [op |-> "get", id |-> x, code |-> 404,
                        body |-> "File not ready"]
            /\ UNCHANGED <<dd, retrieved>>
       ELSE IF ~FileExists(files, download_status[x].filename)
       THEN /\ resp' = [op |-> "get", id |-> x, code |-> 404,
                        body |-> "File not found"]
            /\ UNCHANGED <<dd, retrieved>>
       ELSE /\ Cardinality(ThreadsOf(dd, x)) < MaxPending
            /\ resp' = [op |-> "get", id |-> x, code |-> 200, body |-> "stream"]
            /\ retrieved' = [retrieved EXCEPT ![x] = TRUE]
            /\ dd' = dd \cup {[id |-> x, n |-> FreeSlot(dd, x),
                               file |-> download_status[x].filename,
                               left |-> GRACE_DELAY, pc |-> "sleep"]}
    /\ UNCHANGED <<hist, clock, download_status, files, workerVars, janitorVars>>

\* Variant of delayed_delete: the thread ends after its sleep.
DelayedUnlink_Nothing(t) ==
    /\ t \in dd
    /\ t.pc = "sleep"
    /\ t.left = 0
    /\ dd' = dd \ {t}
    /\ hist' = [hist EXCEPT !.ddRan[t.id] = TRUE]
    /\ UNCHANGED <<clock, download_status, files, workerVars, janitorVars,
                   retrieved, resp>>

\* Variant of delayed_delete: a missing file is tolerated by the unlink
\* (missing_ok) and the thread goes on to remove the registry entry.
DelayedUnlink_MissingOk(t) ==
    /\ t \in dd
    /\ t.pc = "sleep"
    /\ t.left = 0
    /\ files' = IF FileExists(files, t.file) THEN RemoveFile(files, t.file)
                ELSE files
    /\ dd' = (dd \ {t}) \cup {[t EXCEPT !.pc = "del"]}
    /\ hist' = [hist EXCEPT !.overSweeps[t.file] = 0]
    /\ UNCHANGED <<clock, download_status, workerVars, janitorVars, retrieved, resp>>

\* delayed_delete, lines 185-187: after the sleep, filepath.unlink().  A
\* missing file raises; the handler at 191 ends the thread without touching
\* the registry.
DelayedUnlink(t) ==
    /\ t \in dd
    /\ t.pc = "sleep"
    /\ t.left = 0
    /\ IF FileExists(files, t.file)
       THEN /\ files' = RemoveFile(files, t.file)
            /\ dd' = (dd \ {t}) \cup {[t EXCEPT !.pc = "del"]}
            /\ hist' = [hist EXCEPT !.overSweeps[t.file] = 0]
       ELSE /\ files' = files
            /\ dd' = dd \ {t}
            /\ hist' = [hist EXCEPT !.ddRan[t.id] = TRUE]
    /\ UNCHANGED <<clock, download_status, workerVars, janitorVars, retrieved, resp>>

\* Variant of delayed_delete: the thread empties the registry.
DelayedDel_Clear(t) ==
    /\ t \in dd
    /\ t.pc = "del"
    /\ download_status' = << >>
    /\ dd' = dd \ {t}
    /\ hist' = [hist EXCEPT !.ddRan[t.id] = TRUE]
    /\ UNCHANGED <<clock, files, workerVars, janitorVars, retrieved, resp>>

\* delayed_delete, lines 188-190: remove the registry entry if present.
DelayedDel(t) ==
    /\ t \in dd
    /\ t.pc = "del"
    /\ download_status' = IF t.id \in DOMAIN download_status
                          THEN Del(download_status, t.id)
                          ELSE download_status
    /\ dd' = dd \ {t}
    /\ hist' = [hist EXCEPT !.ddRan[t.id] = TRUE]
    /\ UNCHANGED <<clock, files, workerVars, janitorVars, retrieved, resp>>

\* ------------------------------------------- cleanup_old_files  (29-40)
\* Lines 33-34: sample the time and list the store.
JanitorStart ==
    /\ jpc = "sleep"
    /\ jSleep = 0
    /\ current_time' = clock
    /\ jTodo' = DOMAIN files
    /\ jpc' = "loop"
    /\ hist' = [hist EXCEPT !.overSweeps =
                  [f \in AllFiles |->
                     IF FileExists(files, f) /\ IsOverAge(clock, files[f])
                     THEN hist.overSweeps[f] + 1
                     ELSE hist.overSweeps[f]]]
    /\ UNCHANGED <<clock, download_status, files, workerVars, jFile, jMtime,
                   jSleep, dd, retrieved, resp>>

\* Line 35: stat the next file of the listing.  A file that has vanished
\* raises FileNotFoundError, which leaves the for loop (handler at 38) and
\* goes to the sleep at 40.
JanitorStat(f) ==
    /\ jpc = "loop"
    /\ f \in jTodo
    /\ IF ~FileExists(files, f)
       THEN /\ jpc' = "sleep"
            /\ jSleep' = SWEEP_INTERVAL
            /\ jTodo' = {}
            /\ current_time' = 0
            /\ UNCHANGED <<jFile, jMtime>>
       ELSE IF IsOverAge(current_time, files[f])
       THEN /\ jpc' = "unlink"
            /\ jFile' = f
            /\ jMtime' = files[f]
            /\ jTodo' = jTodo \ {f}
            /\ UNCHANGED <<jSleep, current_time>>
       ELSE /\ jTodo' = jTodo \ {f}
            /\ UNCHANGED <<jpc, jFile, jMtime, jSleep, current_time>>
    /\ UNCHANGED <<hist, clock, download_status, files, workerVars, dd, retrieved, resp>>

\* Line 36: file_path.unlink(); a file that has vanished raises as above.
JanitorUnlink ==
    /\ jpc = "unlink"
    /\ IF FileExists(files, jFile)
       THEN /\ files' = RemoveFile(files, jFile)
            /\ jpc' = "loop"
            /\ hist' = [hist EXCEPT !.overSweeps[jFile] = 0]
            /\ UNCHANGED <<jTodo, jSleep, current_time>>
       ELSE /\ files' = files
            /\ UNCHANGED hist
            /\ jpc' = "sleep"
            /\ jSleep' = SWEEP_INTERVAL
            /\ jTodo' = {}
            /\ current_time' = 0
    /\ jFile' = NoFile
    /\ jMtime' = 0
    /\ UNCHANGED <<clock, download_status, workerVars, dd, retrieved, resp>>

\* Line 40: the listing is exhausted; sleep for the sweep interval.
JanitorSleep ==
    /\ jpc = "loop"
    /\ jTodo = {}
    /\ jpc' = "sleep"
    /\ jSleep' = SWEEP_INTERVAL
    /\ current_time' = 0
    /\ UNCHANGED <<hist, clock, download_status, files, workerVars, jTodo, jFile,
                   jMtime, dd, retrieved, resp>>

\* ------------------------------------------------------------------- Next
Next ==
    \/ Tick
    \/ \E url \in Urls, probe \in ProbeResults : StartDownload(url, probe)
    \/ \E x \in Ids : WorkerBegin(x)
    \/ \E x \in Ids, e \in Exts : FetcherWrite(x, e)
    \/ \E x \in Ids, e \in Exts : FetcherRemove(x, e)
    \/ \E x \in Ids, hs \in HookStatuses, ps \in PercentStrs :
          FetcherProgress(x, hs, ps)
    \/ \E x \in Ids : FetcherReturn(x)
    \/ \E x \in Ids : FetcherRaise(x)
    \/ \E x \in Ids : WorkerGlob(x)
    \/ \E x \in Ids : WorkerFinish(x)
    \/ \E x \in pool : CheckStatus(x)
    \/ \E x \in pool : GetFile(x)
    \/ \E t \in dd : DelayedUnlink(t)
    \/ \E t \in dd : DelayedDel(t)
    \/ JanitorStart
    \/ \E f \in AllFiles : JanitorStat(f)
    \/ JanitorUnlink
    \/ JanitorSleep

Spec == Init /\ [][Next]_vars

\* Two jobs submitted side by side, followed until the first instant after
\* the start: long enough for a grace delay to pass and for a second sweep
\* to begin, too short for any file to reach the retention age.  The
\* Fetcher of this run writes its output directly as '<id>.mp4'.
InitPair ==
    /\ InitState
    /\ pool = {1, 2}
    /\ horizon = RETENTION
    /\ outputs = {"mp4"}

\* The steps of Next that can occur in such a run: with no temporary file
\* the Fetcher has none to remove, and with no file over the retention age
\* the janitor never reaches its unlink (line 36).
NextPair ==
    \/ Tick
    \/ \E url \in Urls, probe \in ProbeResults : StartDownload(url, probe)
    \/ \E x \in Ids : WorkerBegin(x)
    \/ \E x \in Ids, e \in Exts : FetcherWrite(x, e)
    \/ \E x \in Ids, hs \in HookStatuses, ps \in PercentStrs :
          FetcherProgress(x, hs, ps)
    \/ \E x \in Ids : FetcherReturn(x)
    \/ \E x \in Ids : FetcherRaise(x)
    \/ \E x \in Ids : WorkerGlob(x)
    \/ \E x \in Ids : WorkerFinish(x)
    \/ \E x \in pool : CheckStatus(x)
    \/ \E x \in pool : GetFile(x)
    \/ \E t \in dd : DelayedUnlink(t)
    \/ \E t \in dd : DelayedDel(t)
    \/ JanitorStart
    \/ \E f \in AllFiles : JanitorStat(f)
    \/ JanitorSleep

SpecPair == InitPair /\ [][NextPair]_vars

\* update_progress(d, download_id) called for x wherever the worker of x
\* stands: the function itself (112-119) looks neither at the worker nor at
\* the status stored for x.
ProgressCall(x, hookStatus, percentStr) ==
    /\ download_status' = UpdateProgress(download_status, x, hookStatus, percentStr)
    /\ UNCHANGED <<hist, clock, files, workerVars, janitorVars, dd, retrieved, resp>>

\* The program with update_progress as an entry point of its own: one job,
\* followed until the first sweep that finds its files over the retention
\* age.
InitProgress ==
    /\ InitState
    /\ pool = {1}
    /\ horizon = RETENTION + GRACE_DELAY + SWEEP_INTERVAL
    /\ outputs = {"mp4", "part"}

NextProgress ==
    \/ Next
    \/ \E x \in pool, hs \in HookStatuses, ps \in PercentStrs :
          ProgressCall(x, hs, ps)

SpecProgress == InitProgress /\ [][NextProgress]_vars

\* ================================================================ properties
\* Steps and states named by the properties.  They are written with the
\* primitive tests (membership in DOMAIN, comparisons), not with the
\* operators that model the code.

\* The janitor's unlink removes f in this step.
JanitorDeletes(f) ==
    /\ jpc = "unlink"
    /\ jpc' # "unlink"
    /\ f \in DOMAIN files
    /\ f \notin DOMAIN files'

\* get_file answers a request for x in this step / returns a stream for x
\* (and so starts a new delayed_delete thread of x).
GetAnswered(x) == resp' # resp /\ resp'.op = "get" /\ resp'.id = x
StreamReturned(x) ==
    \E t \in dd' : t.id = x /\ ~\E u \in dd : u.id = x /\ u.n = t.n

\* The registry status of x before and after the step.
Before(x) == IF x \in DOMAIN download_status THEN download_status[x].status
             ELSE "not_found"
After(x) == IF x \in DOMAIN download_status' THEN download_status'[x].status
            ELSE "not_found"

\* C1: the statuses stored for a job follow downloading -> complete | error.
\* A status is first stored as 'downloading' by the job's own worker, a
\* stored 'downloading' changes only to 'complete' or 'error', and a terminal
\* status changes to no other status (the entry can only be removed).
C1_StatusOrder ==
    [][\A x \in Ids :
          Before(x) # After(x) =>
             \/ Before(x) = "not_found" /\ After(x) = "downloading"
                   /\ wpc[x] = "spawned"
             \/ Before(x) = "downloading" /\ After(x) \in {"complete", "error"}
             \/ Before(x) \in {"complete", "error"} /\ After(x) = "not_found"
      ]_vars

\* A job that went through downloading and complete, was retrieved, and whose
\* entry has been removed again.
C1_Witness ==
    \E x \in Ids : /\ wpc[x] = "done"
                   /\ hist.artMtime[x] >= 0
                   /\ retrieved[x]
                   /\ x \notin DOMAIN download_status

\* C2: from the moment start_download has returned an id until the job's
\* entry is removed, a status query for the id does not answer not_found.
\* (Entries are removed only after a retrieval.)
C2_NeverNotFound ==
    \A x \in Ids :
        (wpc[x] # "unissued" /\ ~retrieved[x]) => x \in DOMAIN download_status

\* x has no entry, or its entry is not complete, or the file named in its
\* complete entry is not in the store.
NotRetrievable(x) ==
    \/ x \notin DOMAIN download_status
    \/ download_status[x].status # "complete"
    \/ download_status[x].filename \notin DOMAIN files

\* C3: get_file for an unknown id, for a job that is not complete, or for a
\* complete job whose file is absent answers 404, returns no stream, starts
\* no delayed_delete and leaves registry and store unchanged.
C3_NotReadyIs404 ==
    [][\A x \in Ids :
          NotRetrievable(x) =>
             /\ ~StreamReturned(x)
             /\ GetAnswered(x) =>
                   /\ resp'.code = 404
                   /\ UNCHANGED <<download_status, files, dd, retrieved>>
      ]_vars

\* get_file has answered 404 for a complete job whose file is gone.
C3_Witness ==
    \E x \in Ids : /\ resp = [op |-> "get", id |-> x, code |-> 404,
                              body |-> "File not found"]
                   /\ x \in DOMAIN download_status
                   /\ download_status[x].status = "complete"
                   /\ download_status[x].filename \notin DOMAIN files

\* C4: while a job is complete, has not been retrieved, and the age of its
\* artifact is within the retention window, the file named in its record is
\* in the store.
C4_ArtifactKept ==
    \A x \in Ids :
        ( /\ x \in DOMAIN download_status
          /\ download_status[x].status = "complete"
          /\ ~retrieved[x]
          /\ clock - hist.artMtime[x] <= RETENTION )
        => download_status[x].filename \in DOMAIN files

\* A sweep has visited, and kept, the artifact of an unretrieved complete job
\* whose age is exactly the retention window.
C4_Witness ==
    \E x \in Ids : /\ x \in DOMAIN download_status
                   /\ download_status[x].status = "complete"
                   /\ ~retrieved[x]
                   /\ clock - hist.artMtime[x] = RETENTION
                   /\ jpc = "loop"
                   /\ current_time = clock
                   /\ download_status[x].filename \in DOMAIN files
                   /\ download_status[x].filename \notin jTodo

\* C5: once a delayed_delete of job x has run, every retrieval of x answers
\* 404 and returns no stream.
C5_GoneAfterGrace ==
    [][\A x \in Ids :
          hist.ddRan[x] =>
             /\ ~StreamReturned(x)
             /\ GetAnswered(x) => resp'.code = 404
      ]_vars

\* x was retrieved twice within the grace delay (a second delayed_delete is
\* still pending); the first delayed_delete has run and removed the entry,
\* and a later retrieval has been answered 404.
C5_Witness ==
    \E x \in Ids : /\ hist.ddRan[x]
                   /\ retrieved[x]
                   /\ x \notin DOMAIN download_status
                   /\ resp = [op |-> "get", id |-> x, code |-> 404,
                              body |-> "File not ready"]
                   /\ \E t \in dd : t.id = x /\ t.n = 2

\* C6: after the delayed_delete threads of x have run (one has run to its
\* end and none is left), the file of x and the registry entry of x are both
\* gone: never the file gone and the entry still there.
C6_RemovedTogether ==
    \A x \in Ids :
        (hist.ddRan[x] /\ \A t \in dd : t.id # x) =>
            ~(FileName(x, "mp4") \notin DOMAIN files /\ x \in DOMAIN download_status)

\* C7: a janitor step that deletes a file of job x leaves no registry entry
\* for x.
C7_JanitorRemovesEntry ==
    [][\A f \in AllFiles :
          JanitorDeletes(f) => f[1] \notin DOMAIN download_status'
      ]_vars

C9_DeletedBySecondSweep ==
    jpc = "sleep" => \A f \in DOMAIN files : hist.overSweeps[f] < 2

\* C10: the janitor deletes no file of a job whose status is downloading.
C10_SparesDownloading ==
    [][\A f \in AllFiles :
          JanitorDeletes(f) => Before(f[1]) # "downloading"
      ]_vars

\* The registry entry of x is created, modified or removed in this step.
EntryChanged(x) ==
    \/ (x \in DOMAIN download_status) # (x \in DOMAIN download_status')
    \/ /\ x \in DOMAIN download_status
       /\ x \in DOMAIN download_status'
       /\ download_status[x] # download_status'[x]

\* C11: a step that creates, modifies or removes the registry entry of job x
\* is a step of x's own worker (its first write, a progress update or its
\* terminal record) or the end of a delayed_delete of x, and it changes
\* neither the entry, the worker nor the delayed_delete threads of any
\* other job.
C11_OwnKeyOnly ==
    [][\A x \in Ids :
          EntryChanged(x) =>
             /\ \A y \in Ids \ {x} :
                   /\ ~EntryChanged(y)
                   /\ wpc'[y] = wpc[y]
                   /\ {t \in dd' : t.id = y} = {t \in dd : t.id = y}
             /\ \/ /\ wpc[x] = "spawned"
                   /\ wpc'[x] = "fetching"
                   /\ x \notin DOMAIN download_status
                \/ /\ wpc[x] = "fetching"
                   /\ wpc'[x] \in {"fetching", "done"}
                   /\ x \in DOMAIN download_status'
                \/ /\ wpc[x] = "globbed"
                   /\ wpc'[x] = "done"
                   /\ x \in DOMAIN download_status'
                \/ /\ \E t \in dd : t.id = x /\ t.pc = "del" /\ t \notin dd'
                   /\ x \notin DOMAIN download_status'
                   /\ wpc' = wpc
      ]_vars

\* Two jobs ran side by side: the entry of one was removed by its
\* delayed_delete while the other, still downloading, has recorded progress.
C11_Witness ==
    \E x \in Ids, y \in Ids :
        /\ x # y
        /\ hist.ddRan[x]
        /\ retrieved[x]
        /\ x \notin DOMAIN download_status
        /\ y \in DOMAIN download_status
        /\ download_status[y].status = "downloading"
        /\ download_status[y].progress = 50

\* A url made of whitespace only / a url naming none of the accepted hosts.
BlankUrl(u) == \A i \in 1..Len(u) : u[i] = " "
NoHost(u) == \A i \in 1..Len(u) : u[i] \notin {"youtube.com", "youtu.be"}

\* C12: a submission whose url is empty or names no accepted host is
\* answered 400 by the handler itself, and it issues no id, starts no worker
\* and leaves the registry, the store and the threads unchanged.
C12_BadUrlRejected ==
    [][(resp' # resp /\ resp'.op = "download") =>
          \A url \in Urls, probe \in ProbeResults :
             ((BlankUrl(url) \/ NoHost(url)) /\ StartDownload(url, probe)) =>
                /\ resp'.code = 400
                /\ resp'.id = NoId
                /\ wpc' = wpc
                /\ download_status' = download_status
                /\ files' = files
                /\ dd' = dd
      ]_vars

\* 'not-a-youtube-link' has been rejected and no job exists.
C12_Witness ==
    /\ resp = [op |-> "download", id |-> NoId, code |-> 400,
               body |-> "Invalid YouTube URL"]
    /\ \A x \in Ids : wpc[x] = "unissued"
    /\ download_status = << >>

\* C13: a submission with an accepted url whose probed size is over the
\* limit is answered 403 with error "size_limit" and creates no job; with a
\* failed probe or no size known it is answered 200 and a worker is started.
C13_SizeLimit403 ==
    [][\A url \in Urls, probe \in ProbeResults :
          (~BlankUrl(url) /\ ~NoHost(url) /\ StartDownload(url, probe)) =>
             IF probe > SIZE_LIMIT_MB
             THEN /\ resp'.code = 403
                  /\ resp'.body = "size_limit"
                  /\ wpc' = wpc
             ELSE /\ resp'.code = 200
                  /\ \E x \in Ids : wpc[x] = "unissued" /\ wpc'[x] = "spawned"
      ]_vars

\* C14: a failure inside the worker of x (the Fetcher raising, or no output
\* file found) ends x in status error with a message, and that step changes
\* no other job's entry or worker, nor the janitor, the store or the
\* delayed_delete threads; no worker run ends with its job recorded as
\* downloading.
C14_FailureContained ==
    [][\A x \in Ids :
          /\ wpc'[x] = "done" => After(x) # "downloading"
          /\ (wpc[x] # "done" /\ wpc'[x] = "done") =>
                After(x) \in {"complete", "error"}
          /\ (Before(x) # "error" /\ After(x) = "error") =>
                /\ "message" \in DOMAIN download_status'[x]
                /\ wpc[x] \in {"fetching", "globbed"}
                /\ wpc'[x] = "done"
                /\ \A y \in Ids \ {x} : ~EntryChanged(y) /\ wpc'[y] = wpc[y]
                /\ UNCHANGED <<janitorVars, files, dd>>
      ]_vars

\* The fetch of one job has failed while the janitor is in a sweep and the
\* other job, which was fetching beside it, went on to complete.
C14_Witness ==
    \E x \in Ids, y \in Ids :
        /\ x # y
        /\ x \in DOMAIN download_status
        /\ download_status[x] = [status |-> "error", message |-> "fetch failed"]
        /\ y \in DOMAIN download_status
        /\ download_status[y].status = "complete"
        /\ download_status[y].filename \in DOMAIN files
        /\ jpc = "loop"

\* C15: when the worker of x writes its terminal record after the Fetcher
\* has returned and the store holds no .mp4 file of x, the record is error;
\* a record written as complete names a .mp4 file of x that is in the store
\* at the moment of the write.
C15_CompleteOnlyWithFile ==
    [][\A x \in Ids :
          /\ (wpc[x] = "globbed" /\ wpc'[x] = "done"
                 /\ FileName(x, "mp4") \notin DOMAIN files) =>
                After(x) = "error"
          /\ (Before(x) # "complete" /\ After(x) = "complete") =>
                /\ download_status'[x].filename = FileName(x, "mp4")
                /\ download_status'[x].filename \in DOMAIN files
      ]_vars

\* C16: every stored entry has a status among downloading, complete and
\* error; it has filename and title exactly when the status is complete,
\* and a message exactly when the status is error.
C16_FieldsMatchStatus ==
    \A x \in DOMAIN download_status :
        /\ "status" \in DOMAIN download_status[x]
        /\ download_status[x].status \in {"downloading", "complete", "error"}
        /\ ("filename" \in DOMAIN download_status[x])
              <=> download_status[x].status = "complete"
        /\ ("title" \in DOMAIN download_status[x])
              <=> download_status[x].status = "complete"
        /\ ("message" \in DOMAIN download_status[x])
              <=> download_status[x].status = "error"

\* A status query has read the entry of a job whose worker ended in error
\* after progress had been recorded for it.
C16_Witness ==
    \E x \in Ids :
        /\ x \in DOMAIN download_status
        /\ download_status[x].status = "error"
        /\ "message" \in DOMAIN download_status[x]
        /\ "progress" \notin DOMAIN download_status[x]
        /\ wpc[x] = "done"
        /\ resp = [op |-> "status", id |-> x, code |-> 200, body |-> "error"]

\* C17: a call of update_progress for a job whose stored status is complete
\* or error leaves the registry unchanged, and a call for a job that has no
\* entry creates none.
C17_IgnoredAfterTerminal ==
    [][\A x \in Ids, hs \in HookStatuses, ps \in PercentStrs :
          ProgressCall(x, hs, ps) =>
             /\ Before(x) \in {"complete", "error"} =>
                   download_status' = download_status
             /\ x \notin DOMAIN download_status =>
                   download_status' = download_status
      ]_vars

\* C18: while a job stays downloading, its recorded progress never goes
\* down and lies between 0 and 100.
C18_ProgressMonotonic ==
    [][\A x \in Ids :
          (Before(x) = "downloading" /\ After(x) = "downloading") =>
             /\ download_status'[x].progress >= download_status[x].progress
             /\ download_status'[x].progress \in 0..100
      ]_vars

\* C19: a deleter that finds its file already absent does nothing to the
\* store and goes on: a delayed_delete ends without touching the store, and
\* the janitor visits the rest of its listing, so that a sweep ends only
\* when every listed file that is still in the store has been visited, and
\* then sleeps one sweep interval before the next sweep.
C19_AbsentFileIsNoOp ==
    [][/\ (jpc = "unlink" /\ jpc' # "unlink" /\ jFile \notin DOMAIN files) =>
             files' = files
       /\ (jpc \in {"loop", "unlink"} /\ jpc' = "sleep") =>
             /\ \A f \in jTodo : f \notin DOMAIN files
             /\ jSleep' = SWEEP_INTERVAL
       /\ \A t \in dd :
             (t.pc = "sleep" /\ t.left = 0 /\ t \notin dd'
                 /\ t.file \notin DOMAIN files) => files' = files
      ]_vars

\* C20: a registry entry is removed only by a delayed_delete of its own job,
\* which was complete and retrieved, and a delayed_delete comes to remove
\* the entry only after its own unlink has removed the file; every other
\* step keeps every entry (error, downloading, complete and not retrieved).
C20_RemovedOnlyAfterRetrieval ==
    [][/\ \A x \in Ids :
             (x \in DOMAIN download_status /\ x \notin DOMAIN download_status') =>
                /\ Before(x) = "complete"
                /\ retrieved[x]
                /\ \E t \in dd : t.id = x /\ t.pc = "del" /\ t \notin dd'
       /\ \A t \in dd :
             (t.pc = "sleep"
                /\ \E u \in dd' : u.id = t.id /\ u.n = t.n /\ u.pc = "del") =>
                /\ t.file \in DOMAIN files
                /\ t.file \notin DOMAIN files'
      ]_vars

\* The entry of a retrieved job has been removed by its delayed_delete, whose
\* unlink removed the file, and no delayed_delete is left.
C20_Witness ==
    \E x \in Ids :
        /\ retrieved[x]
        /\ hist.ddRan[x]
        /\ x \notin DOMAIN download_status
        /\ FileName(x, "mp4") \notin DOMAIN files
        /\ dd = {}
        /\ jpc = "sleep"

====
